---- MODULE Spec2Model ----
(***************************************************************************)
(* Model of src/app.py: the Streamlit page that fetches the SPY quote,     *)
(* the news sentiment and the 30-day history, scores the four configured   *)
(* price levels with calculate_bayesian_probabilities and renders the      *)
(* result.                                                                 *)
(*                                                                         *)
(* Floating point values are modelled as exact rationals extended with     *)
(* the IEEE 754 specials the code can produce (NaN, +inf, -inf): the       *)
(* claims are about ranges, orderings and NaN propagation, not about       *)
(* binary rounding error.  Prices are given in cents and converted to      *)
(* dollars where the code computes with them.                              *)
(***************************************************************************)
EXTENDS Integers, Sequences, FiniteSets, TLC

(***************************************************************************)
(* Bounds of the model (not program constants).                            *)
(***************************************************************************)
\* most bars the history endpoint returns in one response
MaxBars == 6
\* most articles the news endpoint returns in one response
MaxArticles == 1

(***************************************************************************)
(* Program constants.                                                      *)
(***************************************************************************)
\* rolling(5): window of the momentum mean
MomentumWindow == 5
\* data[:5]: articles averaged into the sentiment
NewsLimit == 5
\* highest_prob_value > 70
AlertThreshold == 70
\* SUPPORT_LEVELS / RESISTANCE_LEVELS, in cents, in list order
SUPPORT_LEVELS == <<59288, 59671>>
RESISTANCE_LEVELS == <<60499, 60644>>

(***************************************************************************)
(* Python / numpy float values.                                            *)
(*   k = "num": the rational n/d, d > 0, in lowest terms                   *)
(*   k = "inf": +inf (n = 1) or -inf (n = -1)                              *)
(*   k = "nan": NaN                                                        *)
(*   k = "none": Python None (a missing quote)                             *)
(***************************************************************************)
RECURSIVE GCD(_, _)
GCD(a, b) == IF b = 0 THEN a ELSE GCD(b, a % b)

AbsInt(a) == IF a < 0 THEN -a ELSE a

Sign(a) == IF a < 0 THEN -1 ELSE IF a > 0 THEN 1 ELSE 0

NaN == [k |-> "nan", n |-> 0, d |-> 1]

Inf(s) == [k |-> "inf", n |-> s, d |-> 1]

None == [k |-> "none", n |-> 0, d |-> 1]

\* the float n/d, d # 0
Rat(n, d) ==
    LET g == GCD(AbsInt(n), AbsInt(d))
        s == IF d < 0 THEN -1 ELSE 1
    IN  [k |-> "num", n |-> s * (n \div g), d |-> s * (d \div g)]

Int2F(i) == [k |-> "num", n |-> i, d |-> 1]

IsNum(x) == x.k = "num"

IsNaN(x) == x.k = "nan"

IsZero(x) == x.k = "num" /\ x.n = 0

\* sign of a non-NaN value
SignF(x) == Sign(x.n)

Neg(x) == IF x.k \in {"nan", "none"} THEN x ELSE [x EXCEPT !.n = -x.n]

AbsF(x) == IF x.k \in {"nan", "none"} THEN x ELSE [x EXCEPT !.n = AbsInt(x.n)]

Add(x, y) ==
    IF IsNaN(x) \/ IsNaN(y) THEN NaN
    ELSE IF x.k = "inf" /\ y.k = "inf" THEN (IF x.n = y.n THEN x ELSE NaN)
    ELSE IF x.k = "inf" THEN x
    ELSE IF y.k = "inf" THEN y
    ELSE LET g == GCD(x.d, y.d)
             l == (x.d \div g) * y.d
         IN  Rat(x.n * (l \div x.d) + y.n * (l \div y.d), l)

Sub(x, y) == Add(x, Neg(y))

Mul(x, y) ==
    IF IsNaN(x) \/ IsNaN(y) THEN NaN
    ELSE IF x.k = "inf" \/ y.k = "inf"
         THEN (IF SignF(x) * SignF(y) = 0 THEN NaN ELSE Inf(SignF(x) * SignF(y)))
    ELSE LET g1 == GCD(AbsInt(x.n), y.d)
             g2 == GCD(AbsInt(y.n), x.d)
         IN  Rat((x.n \div g1) * (y.n \div g2), (x.d \div g2) * (y.d \div g1))

\* numpy true division: x/0 is +-inf, 0/0 is NaN (a RuntimeWarning, no exception)
Div(x, y) ==
    IF IsNaN(x) \/ IsNaN(y) THEN NaN
    ELSE IF y.k = "inf" THEN (IF x.k = "inf" THEN NaN ELSE Int2F(0))
    ELSE IF IsZero(y) THEN (IF IsZero(x) THEN NaN ELSE Inf(SignF(x)))
    ELSE IF x.k = "inf" THEN Inf(SignF(x) * SignF(y))
    ELSE Mul(x, Rat(y.d, y.n))

\* a/b < c/d for b, d > 0, without forming the cross products
RECURSIVE FracLess(_, _, _, _)
FracLess(a, b, c, d) ==
    LET q1 == a \div b
        q2 == c \div d
        r1 == a % b
        r2 == c % d
    IN  IF q1 # q2 THEN q1 < q2
        ELSE IF r2 = 0 THEN FALSE
        ELSE IF r1 = 0 THEN TRUE
        ELSE FracLess(d, r2, b, r1)

\* the float comparison x < y: False whenever an operand is NaN
Lt(x, y) ==
    IF IsNaN(x) \/ IsNaN(y) THEN FALSE
    ELSE IF x.k = "inf" THEN x.n = -1 /\ ~(y.k = "inf" /\ y.n = -1)
    ELSE IF y.k = "inf" THEN y.n = 1
    ELSE FracLess(x.n, x.d, y.n, y.d)

Gt(x, y) == Lt(y, x)

\* x <= y and x >= y on floats: False whenever an operand is NaN
Le(x, y) == ~IsNaN(x) /\ ~IsNaN(y) /\ ~Lt(y, x)

Ge(x, y) == Le(y, x)

\* Python's builtin max(a, b): b only if b > a
PyMax(a, b) == IF Gt(b, a) THEN b ELSE a

\* Python's builtin min(a, b): b only if b < a
PyMin(a, b) == IF Lt(b, a) THEN b ELSE a

\* round(x, 2): to the nearest hundredth, ties to even; specials unchanged
Round2(x) ==
    IF ~IsNum(x) THEN x
    ELSE LET q  == x.n \div x.d
             r0 == x.n % x.d
             d1 == (10 * r0) \div x.d
             r1 == (10 * r0) % x.d
             d2 == (10 * r1) \div x.d
             r2 == (10 * r1) % x.d
             h  == 100 * q + 10 * d1 + d2
             up == 2 * r2 > x.d \/ (2 * r2 = x.d /\ h % 2 = 1)
         IN  Rat(IF up THEN h + 1 ELSE h, 100)

\* Python truthiness of a quote field: None and 0 are falsy
Truthy(x) == x.k # "none" /\ ~IsZero(x)

(***************************************************************************)
(* Inputs the collaborators can deliver.                                   *)
(***************************************************************************)
\* live prices, in cents: far below the supports, on a support level, halfway
\* between a support and a resistance, between the resistances
QuotePrices == {57000, 59288, 60085, 60600}

\* live volumes, in millions of shares
QuoteVolumes == {0, 1, 10}

\* (close in cents, volume in millions of shares) of one daily bar
BarKinds == {<<57600, 1>>, <<60000, 2>>}

\* TextBlob polarity of one headline, as a fraction <<n, d>>
Polarities == {<<-1, 1>>, <<1, 5>>, <<1, 1>>}

SeqsUpTo(S, n) == UNION {[1..m -> S] : m \in 0..n}

\* the "historical" list of a response: newest bar first, one bar per date
HistoricalLists ==
    {[i \in 1..Len(f) |-> [date |-> Len(f) + 1 - i, close |-> f[i][1], volume |-> f[i][2]]] :
        f \in SeqsUpTo(BarKinds, MaxBars)}

\* a history response: without the "historical" key, or with the list
HistoryResponses ==
    {[has |-> FALSE, historical |-> <<>>]} \cup
    {[has |-> TRUE, historical |-> h] : h \in HistoricalLists}

ArticleLists == SeqsUpTo(Polarities, MaxArticles)

Dollars(cents) == Rat(cents, 100)

(***************************************************************************)
(* get_spy_news                                                            *)
(***************************************************************************)
RECURSIVE SumF(_)
SumF(xs) == IF xs = <<>> THEN Int2F(0) ELSE Add(Head(xs), SumF(Tail(xs)))

\* np.mean of a non-empty list
Mean(xs) == Div(SumF(xs), Int2F(Len(xs)))

\* sentiment_scores: the polarity of each of data[:5], when the fetch succeeded
SentimentScores(status, data) ==
    IF status = 200 /\ data # <<>>
    THEN [i \in 1..(IF Len(data) < NewsLimit THEN Len(data) ELSE NewsLimit) |->
              Rat(data[i][1], data[i][2])]
    ELSE <<>>

AvgSentiment(scores) == IF scores # <<>> THEN Mean(scores) ELSE Int2F(0)

(***************************************************************************)
(* get_historical_data                                                     *)
(***************************************************************************)
\* rows with `r` inserted before the first row of a later date
RECURSIVE InsertByDate(_, _)
InsertByDate(r, rows) ==
    IF rows = <<>> THEN <<r>>
    ELSE IF r.date < Head(rows).date THEN <<r>> \o rows
    ELSE <<Head(rows)>> \o InsertByDate(r, Tail(rows))

\* df.sort_values("date")
RECURSIVE SortByDate(_)
SortByDate(rows) ==
    IF rows = <<>> THEN <<>>
    ELSE InsertByDate(Head(rows), SortByDate(Tail(rows)))

\* df["close"].pct_change(): close[t] / close[t-1] - 1, NaN on the first row
PctChange(rows) ==
    [i \in 1..Len(rows) |->
        IF i = 1 THEN NaN
        ELSE Sub(Div(Dollars(rows[i].close), Dollars(rows[i - 1].close)), Int2F(1))]

WithReturns(rows) ==
    LET r == PctChange(rows)
    IN  [i \in 1..Len(rows) |->
            [date |-> rows[i].date, close |-> rows[i].close,
             volume |-> rows[i].volume, returns |-> r[i]]]

HasNa(row) == IsNaN(row.returns)

\* df.dropna()
DropNa(rows) == SelectSeq(rows, LAMBDA row : ~HasNa(row))

NoFrame == [t |-> "None", rows |-> <<>>]

Frame(rows) == [t |-> "DataFrame", rows |-> rows]

\* pd.DataFrame([])[["date", "close", "volume"]] raises KeyError: a frame built
\* from an empty list has no columns
RaisesKeyError(resp) == resp.has /\ resp.historical = <<>>

\* the value get_historical_data returns when it does not raise
HistoricalData(resp) ==
    IF resp.has
    THEN Frame(DropNa(WithReturns(SortByDate(resp.historical))))
    ELSE NoFrame

(***************************************************************************)
(* calculate_bayesian_probabilities                                        *)
(***************************************************************************)
Levels == SUPPORT_LEVELS \o RESISTANCE_LEVELS

LevelSet == {Levels[i] : i \in 1..Len(Levels)}

InSeq(x, xs) == \E i \in 1..Len(xs) : xs[i] = x

IsResistance(level) == InSeq(level, RESISTANCE_LEVELS)

RECURSIVE MaxClose(_)
MaxClose(rows) ==
    IF Len(rows) = 1 THEN Dollars(rows[1].close)
    ELSE PyMax(Dollars(Head(rows).close), MaxClose(Tail(rows)))

RECURSIVE MinClose(_)
MinClose(rows) ==
    IF Len(rows) = 1 THEN Dollars(rows[1].close)
    ELSE PyMin(Dollars(Head(rows).close), MinClose(Tail(rows)))

\* max(df["close"]) - min(df["close"])
CloseRange(rows) == Sub(MaxClose(rows), MinClose(rows))

\* df["volume"].mean()
AvgVolume(rows) == Mean([i \in 1..Len(rows) |-> Int2F(rows[i].volume)])

\* df["returns"].rolling(5).mean().iloc[-1]: NaN until the window is full
RecentMomentum(rows) ==
    IF Len(rows) < MomentumWindow THEN NaN
    ELSE Mean([i \in 1..MomentumWindow |-> rows[Len(rows) - MomentumWindow + i].returns])

Distance(price, level, rows) ==
    Div(AbsF(Sub(price, Dollars(level))), CloseRange(rows))

VolumeFactor(volume, rows) == Div(volume, AvgVolume(rows))

Alpha(distance) == Add(Int2F(1), Mul(Sub(Int2F(1), distance), Int2F(5)))

BetaVal(momentum, vf) ==
    Add(Add(Int2F(1), PyMax(Int2F(0), Mul(Neg(momentum), Int2F(10)))),
        Div(Int2F(1), PyMax(vf, Int2F(1))))

\* scipy.stats.beta(a, b).mean(): a / (a + b), NaN when a shape is not > 0
BetaMean(a, b) ==
    IF Gt(a, Int2F(0)) /\ Gt(b, Int2F(0)) THEN Div(a, Add(a, b)) ELSE NaN

\* prob += sentiment_score * 5 / prob -= sentiment_score * 5
SentimentAdjust(prob, level, sentiment) ==
    IF IsResistance(level)
    THEN Add(prob, Mul(sentiment, Int2F(5)))
    ELSE Sub(prob, Mul(sentiment, Int2F(5)))

\* mutant of ClampPercent: the upper clamp is missing
ClampPercentNoCeiling(prob) ==
    Round2(PyMax(Int2F(0), Mul(prob, Int2F(100))))

\* round(max(0, min(prob * 100, 100)), 2)
ClampPercent(prob) ==
    Round2(PyMax(Int2F(0), PyMin(Mul(prob, Int2F(100)), Int2F(100))))

\* the locals of one pass of the loop over the levels
LevelLocals(price, volume, rows, sentiment, level) ==
    LET distance == Distance(price, level, rows)
        momentum == RecentMomentum(rows)
        vf       == VolumeFactor(volume, rows)
        alpha    == Alpha(distance)
        beta_val == BetaVal(momentum, vf)
        raw      == BetaMean(alpha, beta_val)
        prob     == SentimentAdjust(raw, level, sentiment)
    IN  [distance |-> distance, recent_momentum |-> momentum, volume_factor |-> vf,
         alpha |-> alpha, beta_val |-> beta_val, raw |-> raw, prob |-> prob,
         result |-> ClampPercent(prob)]

Unavailable == [t |-> "str", map |-> <<>>]

Unset == [t |-> "unset", map |-> <<>>]

ProbabilityMap(m) == [t |-> "dict", map |-> m]

\* mutant of IsUnusable: a frame with a single return is rejected too
IsUnusableBelowTwoReturns(frame) == frame.t = "None" \/ Len(frame.rows) < 2

\* df is None or df.empty
IsUnusable(frame) == frame.t = "None" \/ frame.rows = <<>>

\* the locals of every pass; empty when the function returns early.
\* volatility (line 69) is computed and never read, and avg_volume (line 70)
\* enters through volume_factor.
AllLocals(price, volume, frame, sentiment) ==
    IF IsUnusable(frame) THEN <<>>
    ELSE [level \in LevelSet |-> LevelLocals(price, volume, frame.rows, sentiment, level)]

\* the returned value: the sentinel, or probabilities[level] of every pass
Probabilities(frame, passes) ==
    IF IsUnusable(frame) THEN Unavailable
    ELSE ProbabilityMap([level \in LevelSet |-> passes[level].result])

(***************************************************************************)
(* page: the highest-probability event                                     *)
(***************************************************************************)
\* max(probabilities, key=probabilities.get) over keys[i..]: the first key,
\* in insertion order, no later key is greater than
RECURSIVE ArgMaxFrom(_, _, _, _)
ArgMaxFrom(m, keys, i, best) ==
    IF i > Len(keys) THEN best
    ELSE ArgMaxFrom(m, keys, i + 1, IF Gt(m[keys[i]], m[best]) THEN keys[i] ELSE best)

HighestProbLevel(m) == ArgMaxFrom(m, Levels, 2, Levels[1])

\* mutant of AlertFor: the membership test of line 135 is inverted
AlertForInverted(level, value) ==
    IF Gt(value, Int2F(AlertThreshold))
    THEN (IF IsResistance(level) THEN "SUPPORT" ELSE "RESISTANCE")
    ELSE "success"

\* which branch of lines 134-142 runs
AlertFor(level, value) ==
    IF Gt(value, Int2F(AlertThreshold))
    THEN (IF IsResistance(level) THEN "RESISTANCE" ELSE "SUPPORT")
    ELSE "success"

(***************************************************************************)
(* State of one run of the page script, and of the session that reruns it. *)
(***************************************************************************)
VARIABLES
    pc,               \* the statement of the script that runs next
    spy_price,        \* get_real_time_spy_data()[0]
    spy_volume,       \* get_real_time_spy_data()[1]
    news_headlines,   \* number of headlines collected
    sentiment_score,  \* avg_sentiment
    history,          \* the history response get_historical_data parsed
    df,               \* the frame passed to the scorer
    locals,           \* the scorer's per-level locals
    probabilities,    \* the scorer's return value
    lines,            \* levels whose probability line st.write rendered
    highest,          \* highest_prob_level / highest_prob_value
    alert,            \* "none", "RESISTANCE", "SUPPORT", "success"
    notice,           \* "none", or the st.error shown
    exception         \* "none", or the uncaught exception that ended the run

vars == <<pc, spy_price, spy_volume, news_headlines, sentiment_score, history, df,
          locals, probabilities, lines, highest, alert, notice, exception>>

NoHistory == [has |-> FALSE, historical |-> <<>>]

NoHighest == [level |-> 0, value |-> NaN]

Fresh ==
    /\ spy_price = None
    /\ spy_volume = None
    /\ news_headlines = 0
    /\ sentiment_score = Int2F(0)
    /\ history = NoHistory
    /\ df = NoFrame
    /\ locals = <<>>
    /\ probabilities = Unset
    /\ lines = <<>>
    /\ highest = NoHighest
    /\ alert = "none"
    /\ notice = "none"
    /\ exception = "none"

Init == pc = "quote" /\ Fresh

\* line 99: spy_price, spy_volume = get_real_time_spy_data()
GetRealTimeSpyData ==
    /\ pc = "quote"
    /\ \E ok \in BOOLEAN, p \in QuotePrices, v \in QuoteVolumes :
          /\ spy_price' = IF ok THEN Dollars(p) ELSE None
          /\ spy_volume' = IF ok THEN Int2F(v) ELSE None
    /\ pc' = "news"
    /\ UNCHANGED <<news_headlines, sentiment_score, history, df, locals,
                   probabilities, lines, highest, alert, notice, exception>>

\* line 100: news_headlines, sentiment_score = get_spy_news()
GetSpyNews ==
    /\ pc = "news"
    /\ \E status \in {200, 500}, data \in ArticleLists :
          LET scores == SentimentScores(status, data)
          IN  /\ news_headlines' = Len(scores)
              /\ sentiment_score' = AvgSentiment(scores)
    /\ pc' = "gate"
    /\ UNCHANGED <<spy_price, spy_volume, history, df, locals, probabilities,
                   lines, highest, alert, notice, exception>>

\* lines 102-109: the quote is there, the metrics column is rendered
ShowMetrics ==
    /\ pc = "gate"
    /\ Truthy(spy_price) /\ Truthy(spy_volume)
    /\ pc' = "history"
    /\ UNCHANGED <<spy_price, spy_volume, news_headlines, sentiment_score, history,
                   df, locals, probabilities, lines, highest, alert, notice, exception>>

\* lines 149-150: no quote
ShowFetchError ==
    /\ pc = "gate"
    /\ ~(Truthy(spy_price) /\ Truthy(spy_volume))
    /\ notice' = "Error fetching real-time SPY data."
    /\ pc' = "footer"
    /\ UNCHANGED <<spy_price, spy_volume, news_headlines, sentiment_score, history,
                   df, locals, probabilities, lines, highest, alert, exception>>

\* line 112: df = get_historical_data()
GetHistoricalData ==
    /\ pc = "history"
    /\ \E resp \in HistoryResponses :
          /\ history' = resp
          /\ IF RaisesKeyError(resp)
             THEN /\ exception' = "KeyError"
                  /\ pc' = "crashed"
                  /\ df' = df
             ELSE /\ exception' = exception
                  /\ pc' = "score"
                  /\ df' = HistoricalData(resp)
    /\ UNCHANGED <<spy_price, spy_volume, news_headlines, sentiment_score, locals,
                   probabilities, lines, highest, alert, notice>>

\* calculate_bayesian_probabilities(spy_price, spy_volume, df, sentiment_score)
Score(from, to) ==
    /\ pc = from
    /\ locals' = AllLocals(spy_price, spy_volume, df, sentiment_score)
    /\ probabilities' = Probabilities(df, locals')
    /\ pc' = to
    /\ UNCHANGED <<spy_price, spy_volume, news_headlines, sentiment_score, history,
                   df, lines, highest, alert, notice, exception>>

\* line 113: probabilities = calculate_bayesian_probabilities(...)
CalculateBayesianProbabilities == Score("score", "render")

\* lines 115-128: one line per level, sorted supports then sorted resistances;
\* probabilities[level] on the str raises TypeError at the first of them
RenderLevels ==
    /\ pc = "render"
    /\ IF probabilities.t = "dict"
       THEN /\ lines' = Levels
            /\ pc' = "alert"
            /\ exception' = exception
       ELSE /\ lines' = lines
            /\ pc' = "crashed"
            /\ exception' = "TypeError"
    /\ UNCHANGED <<spy_price, spy_volume, news_headlines, sentiment_score, history,
                   df, locals, probabilities, highest, alert, notice>>

\* lines 130-142: the highest probability event and its alert
HighestProbabilityAlert ==
    /\ pc = "alert"
    /\ LET level == HighestProbLevel(probabilities.map)
           value == probabilities.map[level]
       IN  /\ highest' = [level |-> level, value |-> value]
           /\ alert' = AlertFor(level, value)
    /\ pc' = "headlines"
    /\ UNCHANGED <<spy_price, spy_volume, news_headlines, sentiment_score, history,
                   df, locals, probabilities, lines, notice, exception>>

\* lines 144-147: the headlines
ShowNews ==
    /\ pc = "headlines"
    /\ pc' = "footer"
    /\ UNCHANGED <<spy_price, spy_volume, news_headlines, sentiment_score, history,
                   df, locals, probabilities, lines, highest, alert, notice, exception>>

\* lines 152-155: the refresh button reruns the script from the top
Refresh ==
    /\ pc = "footer"
    /\ pc' = "quote"
    /\ spy_price' = None
    /\ spy_volume' = None
    /\ news_headlines' = 0
    /\ sentiment_score' = Int2F(0)
    /\ history' = NoHistory
    /\ df' = NoFrame
    /\ locals' = <<>>
    /\ probabilities' = Unset
    /\ lines' = <<>>
    /\ highest' = NoHighest
    /\ alert' = "none"
    /\ notice' = "none"
    /\ exception' = "none"

Next ==
    \/ GetRealTimeSpyData
    \/ GetSpyNews
    \/ ShowMetrics
    \/ ShowFetchError
    \/ GetHistoricalData
    \/ CalculateBayesianProbabilities
    \/ RenderLevels
    \/ HighestProbabilityAlert
    \/ ShowNews
    \/ Refresh

Spec == Init /\ [][Next]_vars

(***************************************************************************)
(* The scorer called on its own, on every input of the bounded sets.       *)
(***************************************************************************)
Sentiments ==
    {AvgSentiment(SentimentScores(200, data)) : data \in ArticleLists}

\* the frames get_historical_data can return
Frames == {HistoricalData(resp) : resp \in {r \in HistoryResponses : ~RaisesKeyError(r)}}

InitScorer ==
    /\ pc = "call"
    /\ spy_price \in {Dollars(p) : p \in QuotePrices}
    /\ spy_volume \in {Int2F(v) : v \in QuoteVolumes}
    /\ sentiment_score \in Sentiments
    /\ df \in Frames
    /\ news_headlines = 0
    /\ history = NoHistory
    /\ locals = <<>>
    /\ probabilities = Unset
    /\ lines = <<>>
    /\ highest = NoHighest
    /\ alert = "none"
    /\ notice = "none"
    /\ exception = "none"

ScorerCall == Score("call", "returned")

NextScorer == ScorerCall

SpecScorer == InitScorer /\ [][NextScorer]_vars

(***************************************************************************)
(* Properties.                                                             *)
(***************************************************************************)
\* the scorer has returned a probability map
ReturnedMap == probabilities.t = "dict"

\* the scorer has returned the 'Data unavailable' sentinel
ReturnedSentinel == probabilities.t = "str"

InPercentRange(x) == Le(Int2F(0), x) /\ Le(x, Int2F(100))

\* C1: every value of a returned probability map lies in [0, 100], for every
\* price, volume (0 included) and sentiment of the input sets.
C1_ProbabilitiesInRange ==
    (pc = "returned" /\ ReturnedMap) =>
        \A level \in LevelSet : InPercentRange(probabilities.map[level])

\* C1 witness: a call at the extremes (distance 0, volume factor 0, negative
\* momentum) whose result is strictly inside the range.
C1_Witness ==
    /\ pc = "returned"
    /\ ReturnedMap
    /\ \E level \in LevelSet :
          /\ IsZero(locals[level].distance)
          /\ IsZero(locals[level].volume_factor)
          /\ Lt(locals[level].recent_momentum, Int2F(0))
          /\ Lt(Int2F(0), probabilities.map[level])
          /\ Lt(probabilities.map[level], Int2F(100))

\* the history the page fetched cannot yield a daily return
ShortHistory == ~history.has \/ Len(history.historical) <= 1

\* C2 (as claimed): a missing, empty or one-bar history never raises and makes
\* the scorer return the sentinel.
C2_ShortHistoryYieldsSentinel ==
    (pc \in {"score", "render", "crashed"} /\ ShortHistory) =>
        /\ exception # "KeyError"
        /\ (pc = "render" => ReturnedSentinel)

ZeroRange == df.t = "DataFrame" /\ df.rows # <<>> /\ IsZero(CloseRange(df.rows))

\* C4 (as claimed): with a zero close range no level's distance comes from a
\* division by the zero range (it is a finite number), and every level gets a
\* defined probability.
C4_ZeroRangeNotDivided ==
    (ReturnedMap /\ ZeroRange) =>
        \A level \in LevelSet :
            /\ IsNum(locals[level].distance)
            /\ IsNum(probabilities.map[level])

\* C5 (as claimed): both shape parameters are at least 1 for every level; the
\* levels whose distance is a finite number are enough to decide it.
C5_ShapeParametersAtLeastOne ==
    ReturnedMap =>
        \A level \in LevelSet :
            IsNum(locals[level].distance) =>
                /\ Ge(locals[level].alpha, Int2F(1))
                /\ Ge(locals[level].beta_val, Int2F(1))

\* the pre-clamp percentage of a level
PreClampPercent(pass) == Mul(pass.prob, Int2F(100))

\* the pre-clamp percentage of the same call with sentiment 0
ZeroSentimentPercent(level) ==
    PreClampPercent(LevelLocals(spy_price, spy_volume, df.rows, Int2F(0), level))

\* C6 (as claimed): the pre-clamp percentage is the zero-sentiment percentage
\* plus 5 * sentiment for a resistance level and minus 5 * sentiment for a
\* support level.
C6_SentimentNudgeFivePoints ==
    ReturnedMap =>
        \A level \in LevelSet :
            IsNum(locals[level].raw) =>
                PreClampPercent(locals[level]) =
                    IF IsResistance(level)
                    THEN Add(ZeroSentimentPercent(level), Mul(sentiment_score, Int2F(5)))
                    ELSE Sub(ZeroSentimentPercent(level), Mul(sentiment_score, Int2F(5)))

\* C7 (as claimed): within one call (momentum and volume factor fixed), a level
\* at a smaller or equal finite distance has a raw probability at least as
\* large.
C7_RawMonotoneInDistance ==
    ReturnedMap =>
        \A l1, l2 \in LevelSet :
            (/\ IsNum(locals[l1].distance)
             /\ IsNum(locals[l2].distance)
             /\ Le(locals[l1].distance, locals[l2].distance)) =>
                Ge(locals[l1].raw, locals[l2].raw)

\* the mean of the last k returns of the frame
MeanOfLastReturns(rows, k) ==
    Mean([i \in 1..k |-> rows[Len(rows) - k + i].returns])

\* C8 (as claimed): recent momentum is the mean of the last 5 returns, or of
\* all returns when there are fewer than 5.
C8_MomentumUsesAvailableReturns ==
    ReturnedMap =>
        \A level \in LevelSet :
            locals[level].recent_momentum =
                MeanOfLastReturns(df.rows,
                    IF Len(df.rows) < MomentumWindow THEN Len(df.rows) ELSE MomentumWindow)

\* C9 (as claimed): once the scorer has returned the sentinel the run raises
\* no exception, renders no level line and computes no alert.
C9_SentinelEndsWithoutException ==
    ReturnedSentinel =>
        /\ exception = "none"
        /\ lines = <<>>
        /\ alert = "none"

\* the highest value of a probability map
MaxValue(m) == CHOOSE v \in {m[l] : l \in LevelSet} : \A l \in LevelSet : Le(m[l], v)

\* C10: a returned map never ends the run in an exception, and once the alert
\* is decided it is a warning iff the highest probability is above 70; the
\* warning names RESISTANCE iff the picked highest level is a resistance level
\* and SUPPORT otherwise; at 70 or below the page reports no extreme risk.
C10_AlertIffAboveThreshold ==
    /\ ReturnedMap => exception = "none"
    /\ (ReturnedMap /\ pc \in {"headlines", "footer"}) =>
          LET top == MaxValue(probabilities.map)
              hot == Gt(top, Int2F(AlertThreshold))
          IN  /\ highest.value = top
              /\ probabilities.map[highest.level] = top
              /\ (alert \in {"RESISTANCE", "SUPPORT"}) <=> hot
              /\ (alert = "RESISTANCE") <=> (hot /\ IsResistance(highest.level))
              /\ (alert = "SUPPORT") <=> (hot /\ ~IsResistance(highest.level))
              /\ (alert = "success") <=> ~hot

\* C10 witness: a RESISTANCE warning for a highest probability strictly
\* between the threshold and 100.
C10_Witness ==
    /\ pc = "headlines"
    /\ alert = "RESISTANCE"
    /\ Lt(highest.value, Int2F(100))

====
